---------------------------- MODULE Spec2Model ----------------------------
(***************************************************************************)
(* A model of the batch audio pipeline of kokoro-tts.                      *)
(*                                                                         *)
(*  - the chunk-synthesis orchestrators: BatchProcessor.startProcessing    *)
(*    (with the Start/Cancel buttons and the ServerTtsInterface parent     *)
(*    that mounts it) and TtsInterface.convertToSpeech;                    *)
(*  - the size-bounded mergers: POST /api/tts/process (temp files, ffmpeg) *)
(*    and AudioStitcher.stitchAudioFiles / processGroup.                   *)
(*                                                                         *)
(* Each behaviour observes one component, named by the variable component; *)
(* the other components stay in their constructed state.                   *)
(***************************************************************************)
EXTENDS Integers, Sequences, FiniteSets, TLC

VARIABLES
    component,     \* the component whose execution is observed
    nChunks,       \* chunks.length: the number of chunks chunkText(text) returns
    server,        \* ServerTtsInterface state: showBatchProcessor, batchProgress, audioFiles
    bp,            \* BatchProcessor state: isProcessing, currentChunk, totalChunks, error
    tts,           \* TtsInterface state: kokoroTTS, isLoading, progress, currentAudioChunks, audioUrl, alerts
    runs,          \* one record per invocation of startProcessing / convertToSpeech
    calls,         \* per run, the synthesis requests issued so far and their status
    bpProgress,    \* per run, the calls of the onProgress sink
    ttsProgress,   \* per run, the values given to setProgress
    completeLog,   \* per run, the lists given to onComplete
    text,          \* BatchProcessor: the text prop, a sequence of characters
    maxChunkSize,  \* BatchProcessor: the bound given to chunkText
    chunker,       \* BatchProcessor: the call of chunkText and what it returned
    synth,         \* POST /api/tts: the body, the configuration, the position, what the engine got
    ap,            \* AudioProcessor: pendingChunks, isProcessing, the request in flight, the requests sent
    audioChunks,   \* POST /api/tts/process: per chunk of the body, the size of its MP3
    maxSizeMB,     \* POST /api/tts/process: maxSizeMB of the body
    bodyKind,      \* POST /api/tts/process: what request.json() yields
    files,         \* the temp directory: path -> content (the chunks held, in order)
    req,           \* POST /api/tts/process: the handler's locals, position and response
    clock,         \* Date.now(), in milliseconds
    mtime,         \* the temp directory: path -> time of the last write (kept after unlink)
    sweep,         \* cleanupOldTempFiles: its locals and position
    other,         \* POST /api/tts/process: a second request served at the same time
    audioBuffers,  \* AudioStitcher: per audio file, buffer.length (samples)
    outputFormat,  \* AudioStitcher: the outputFormat prop
    stitch         \* AudioStitcher: state, locals and position of stitchAudioFiles

chunkVars == <<text, maxChunkSize, chunker>>

synthVars == <<synth>>

processorVars == <<ap>>

orchVars == <<nChunks, server, bp, tts, runs, calls, bpProgress, ttsProgress, completeLog,
             chunkVars, synthVars, processorVars>>

routeVars == <<audioChunks, maxSizeMB, bodyKind, files, req, clock, mtime, sweep, other>>

stitchVars == <<audioBuffers, outputFormat, stitch>>

vars == <<component, orchVars, routeVars, stitchVars>>

-----------------------------------------------------------------------------
(* Bounds *)

MaxChunks == 3
MaxRuns == 2
MaxArtifacts == 3

Runs == 1..MaxRuns

\* Failure messages a synthesis request can come back with.
Messages == {"Hugging Face API configuration missing", "TTS generation failed"}

NoError == [chunk |-> 0, message |-> "", hint |-> FALSE]

-----------------------------------------------------------------------------
(* Helpers *)

\* A progress value num/den * 100 is kept exact, as the pair <<num * 100, den>>.
FracEq(a, b) == a[1] * b[2] = b[1] * a[2]
FracLt(a, b) == a[1] * b[2] < b[1] * a[2]
Percent(p) == <<p, 1>>

Last(s) == s[Len(s)]

Range(s) == {s[k] : k \in 1..Len(s)}

\* A run's index in the order the runs are started.
IsNextRun(r) == /\ runs[r].pc = "idle"
                /\ \A q \in Runs : q < r => runs[q].pc # "idle"

Active(r) == runs[r].pc \in {"await", "delay"}

IssueCall(cs, i) == Append(cs, [chunk |-> i, status |-> "inflight"])

SettleCall(cs, st) == [cs EXCEPT ![Len(cs)].status = st]

Finished(r) == Cardinality({k \in 1..Len(calls[r]) : calls[r][k].status # "inflight"})

InFlight(r) == {k \in 1..Len(calls[r]) : calls[r][k].status = "inflight"}

-----------------------------------------------------------------------------
(* BatchProcessor *)

bpInitial == [isProcessing |-> FALSE, currentChunk |-> 0, totalChunks |-> 0,
              error |-> NoError]

\* for (let i = 0; ...; i++)
bpNextIndex_Skip(i) == i + 2

bpNextIndex(i) == i + 1

\* onProgress(((i + 1) / chunks.length) * 100, i + 1, chunks.length)
bpProgressValue_FromZero(i, n) == <<i * 100, n>>

bpProgressValue(i, n) == <<(i + 1) * 100, n>>

\* setError(`Warning: Chunk ${i + 1} failed - ...`): the message names the
\* chunk and the failure; the Hugging Face case adds the .env.local hint.
bpWarning(i, m) ==
    [chunk |-> i + 1, message |-> m,
     hint |-> (m = "Hugging Face API configuration missing")]

\* The loop head of startProcessing reached with index i, the artifacts af
\* collected so far, the component state bpNow and the run's requests cs:
\* either the next request is issued (progress first), or the loop is over
\* and onComplete is called.
bpEnterLoop(r, i, af, bpNow, cs) ==
    IF i < nChunks
    THEN /\ bp' = [bpNow EXCEPT !.currentChunk = i + 1]
         /\ bpProgress' = [bpProgress EXCEPT ![r] = Append(@,
                [progress |-> bpProgressValue(i, nChunks),
                 currentChunk |-> i + 1, totalChunks |-> nChunks])]
         /\ server' = [server EXCEPT !.batchProgress = bpProgressValue(i, nChunks)]
         /\ calls' = [calls EXCEPT ![r] = IssueCall(cs, i)]
         /\ runs' = [runs EXCEPT ![r].pc = "await", ![r].i = i, ![r].audioFiles = af]
         /\ UNCHANGED completeLog
    ELSE \* onComplete(audioFiles) is handleBatchComplete, which hides the
         \* component; finally { setIsProcessing(false) }. bp keeps the last
         \* values of the component's state.
         /\ completeLog' = [completeLog EXCEPT ![r] = Append(@, af)]
         /\ server' = [showBatchProcessor |-> FALSE, batchProgress |-> Percent(100),
                       audioFiles |-> af]
         /\ bp' = [bpNow EXCEPT !.isProcessing = FALSE]
         /\ calls' = [calls EXCEPT ![r] = cs]
         /\ runs' = [runs EXCEPT ![r].pc = "done", ![r].i = i, ![r].audioFiles = af]
         /\ UNCHANGED bpProgress

\* The Start button (shown while !isProcessing, disabled for no chunks).
BPStart(r) ==
    /\ component = "BatchProcessor"
    /\ server.showBatchProcessor
    /\ ~bp.isProcessing
    /\ nChunks > 0
    /\ IsNextRun(r)
    /\ bpEnterLoop(r, 0, <<>>,
                   [isProcessing |-> TRUE, currentChunk |-> 0,
                    totalChunks |-> nChunks, error |-> NoError],
                   calls[r])
    /\ UNCHANGED <<component, nChunks, tts, ttsProgress, routeVars, stitchVars,
                   chunkVars, synthVars, processorVars>>

\* processChunk(chunks[i], i) resolves: the artifact is pushed; then the
\* 500 ms delay unless this was the last chunk.
BPChunkSucceeded(r) ==
    /\ component = "BatchProcessor"
    /\ runs[r].pc = "await"
    /\ LET i == runs[r].i
           af == Append(runs[r].audioFiles, i)
       IN IF i < nChunks - 1
          THEN /\ calls' = [calls EXCEPT ![r] = SettleCall(@, "ok")]
               /\ runs' = [runs EXCEPT ![r].pc = "delay", ![r].audioFiles = af]
               /\ UNCHANGED <<bp, server, bpProgress, completeLog>>
          ELSE bpEnterLoop(r, bpNextIndex(i), af, bp, SettleCall(calls[r], "ok"))
    /\ UNCHANGED <<component, nChunks, tts, ttsProgress, routeVars, stitchVars,
                   chunkVars, synthVars, processorVars>>

\* The 500 ms delay between two requests is over.
BPDelayElapsed_NoAwait(r) ==
    /\ component = "BatchProcessor"
    /\ runs[r].pc \in {"delay", "await"}
    /\ runs[r].i < nChunks - 1
    /\ bpEnterLoop(r, bpNextIndex(runs[r].i), runs[r].audioFiles, bp, calls[r])
    /\ UNCHANGED <<component, nChunks, tts, ttsProgress, routeVars, stitchVars,
                   chunkVars, synthVars, processorVars>>

BPDelayElapsed(r) ==
    /\ component = "BatchProcessor"
    /\ runs[r].pc = "delay"
    /\ bpEnterLoop(r, bpNextIndex(runs[r].i), runs[r].audioFiles, bp, calls[r])
    /\ UNCHANGED <<component, nChunks, tts, ttsProgress, routeVars, stitchVars,
                   chunkVars, synthVars, processorVars>>

\* processChunk rejects with message m. Without the inner try/catch the
\* rejection would reach the outer catch and end the run.
BPChunkFailed_Abort(r, m) ==
    /\ component = "BatchProcessor"
    /\ runs[r].pc = "await"
    /\ calls' = [calls EXCEPT ![r] = SettleCall(@, "failed")]
    /\ bp' = [bp EXCEPT !.error = bpWarning(runs[r].i, m), !.isProcessing = FALSE]
    /\ runs' = [runs EXCEPT ![r].pc = "done"]
    /\ UNCHANGED <<server, bpProgress, completeLog>>
    /\ UNCHANGED <<component, nChunks, tts, ttsProgress, routeVars, stitchVars,
                   chunkVars, synthVars, processorVars>>

\* processChunk rejects with message m: the catch block sets the warning
\* and the loop goes on with the next chunk (no delay on this path).
BPChunkFailed(r, m) ==
    /\ component = "BatchProcessor"
    /\ runs[r].pc = "await"
    /\ bpEnterLoop(r, bpNextIndex(runs[r].i), runs[r].audioFiles,
                   [bp EXCEPT !.error = bpWarning(runs[r].i, m)],
                   SettleCall(calls[r], "failed"))
    /\ UNCHANGED <<component, nChunks, tts, ttsProgress, routeVars, stitchVars,
                   chunkVars, synthVars, processorVars>>

\* The Cancel button (shown while isProcessing).
BPCancel ==
    /\ component = "BatchProcessor"
    /\ server.showBatchProcessor
    /\ bp.isProcessing
    /\ bp' = [bp EXCEPT !.isProcessing = FALSE, !.error = NoError]
    /\ runs' = [r \in Runs |->
                  IF Active(r) THEN [runs[r] EXCEPT !.cancelled = TRUE] ELSE runs[r]]
    /\ UNCHANGED <<server, calls, bpProgress, completeLog>>
    /\ UNCHANGED <<component, nChunks, tts, ttsProgress, routeVars, stitchVars,
                   chunkVars, synthVars, processorVars>>

-----------------------------------------------------------------------------
(* TtsInterface *)

ttsInitial == [kokoroTTS |-> "loading", isLoading |-> FALSE, progress |-> Percent(0),
               currentAudioChunks |-> <<>>, audioUrl |-> <<>>, alert |-> ""]

\* for (let i = 0; ...; i++)
ttsNextIndex(i) == i + 1

\* setProgress((i / chunks.length) * 100)
ttsProgressValue(i, n) == <<i * 100, n>>

\* mergeAudioBuffers: the raw buffers one after the other.
mergeAudioBuffers(chunks) == chunks

\* The initialisation effect: KokoroTTS.from_pretrained resolves or rejects.
TtsInitKokoro(ok) ==
    /\ component = "TtsInterface"
    /\ tts.kokoroTTS = "loading"
    /\ tts' = IF ok THEN [tts EXCEPT !.kokoroTTS = "ready"]
                    ELSE [tts EXCEPT !.kokoroTTS = "failed",
                                     !.alert = "Failed to initialize TTS engine"]
    /\ UNCHANGED <<component, nChunks, server, bp, runs, calls, bpProgress,
                   ttsProgress, completeLog, routeVars, stitchVars,
                   chunkVars, synthVars, processorVars>>

\* The loop head of convertToSpeech reached with index i, the buffers ac
\* collected so far, the component state ttsNow and the run's requests cs.
ttsEnterLoop(r, i, ac, ttsNow, cs) ==
    IF i < nChunks
    THEN /\ tts' = [ttsNow EXCEPT !.progress = ttsProgressValue(i, nChunks)]
         /\ ttsProgress' = [ttsProgress EXCEPT ![r] = Append(@, ttsProgressValue(i, nChunks))]
         /\ calls' = [calls EXCEPT ![r] = IssueCall(cs, i)]
         /\ runs' = [runs EXCEPT ![r].pc = "await", ![r].i = i, ![r].audioFiles = ac]
    ELSE /\ calls' = [calls EXCEPT ![r] = cs]
         /\ runs' = [runs EXCEPT ![r].pc = "done", ![r].i = i, ![r].audioFiles = ac]
         /\ IF Len(ac) > 0
            THEN /\ tts' = [ttsNow EXCEPT !.currentAudioChunks = ac,
                                          !.audioUrl = mergeAudioBuffers(ac),
                                          !.progress = Percent(100),
                                          !.isLoading = FALSE]
                 /\ ttsProgress' = [ttsProgress EXCEPT ![r] = Append(@, Percent(100))]
            ELSE \* throw new Error('No audio chunks were successfully generated')
                 /\ tts' = [ttsNow EXCEPT
                              !.alert = "No audio chunks were successfully generated",
                              !.isLoading = FALSE]
                 /\ UNCHANGED ttsProgress

\* The Convert button (disabled for blank text, while loading and until the
\* engine is ready). The text is not blank; it may still hold no sentence.
\* setProgress(0) resets the bar before the loop; the loop's own values are
\* the ones logged in ttsProgress.
TtsConvertToSpeech(r) ==
    /\ component = "TtsInterface"
    /\ tts.kokoroTTS = "ready"
    /\ ~tts.isLoading
    /\ IsNextRun(r)
    /\ ttsEnterLoop(r, 0, <<>>,
                    [tts EXCEPT !.isLoading = TRUE, !.progress = Percent(0),
                                !.currentAudioChunks = <<>>, !.audioUrl = <<>>],
                    calls[r])
    /\ UNCHANGED <<component, nChunks, server, bp, bpProgress, completeLog,
                   routeVars, stitchVars,
                   chunkVars, synthVars, processorVars>>

\* kokoroTTS.generate resolves with an ArrayBuffer, a .buffer or a .data.
TtsChunkSucceeded(r) ==
    /\ component = "TtsInterface"
    /\ runs[r].pc = "await"
    /\ ttsEnterLoop(r, ttsNextIndex(runs[r].i), Append(runs[r].audioFiles, runs[r].i),
                    tts, SettleCall(calls[r], "ok"))
    /\ UNCHANGED <<component, nChunks, server, bp, bpProgress, completeLog,
                   routeVars, stitchVars,
                   chunkVars, synthVars, processorVars>>

\* kokoroTTS.generate rejects, or resolves with an object of unknown format
\* (which the try block turns into a throw): the catch block only logs.
TtsChunkFailed(r) ==
    /\ component = "TtsInterface"
    /\ runs[r].pc = "await"
    /\ ttsEnterLoop(r, ttsNextIndex(runs[r].i), runs[r].audioFiles,
                    tts, SettleCall(calls[r], "failed"))
    /\ UNCHANGED <<component, nChunks, server, bp, bpProgress, completeLog,
                   routeVars, stitchVars,
                   chunkVars, synthVars, processorVars>>


-----------------------------------------------------------------------------
(* POST /api/tts/process *)

\* The sizes an encoded chunk can have, in bytes, and the bounds a body can
\* ask for: half a megabyte, exactly one, one byte more.
FileSizes == {524288, 1048576, 1048577}
MaxSizeMBs == {1, 2}
BodyKinds == {"ok", "no_chunks", "bad_json"}

\* What a write, a copy or an ffmpeg run can do: succeed, fail leaving
\* nothing, or fail leaving an incomplete output file.
Outcomes == {"ok", "fail", "fail_partial"}

\* const maxSizeBytes = maxSizeMB * 1024 * 1024
maxSizeBytes == maxSizeMB * 1024 * 1024

\* path.join(tempDir, `chunk_${timestamp}_${i}.wav`) and the like
tempWavPath(ts, i) == [kind |-> "chunk", ts |-> ts, n |-> i, ext |-> "wav"]
mp3Path(ts, i) == [kind |-> "chunk", ts |-> ts, n |-> i, ext |-> "mp3"]
outputPath(ts, k) == [kind |-> "merged", ts |-> ts, n |-> k, ext |-> "mp3"]
listPath(out) == [out EXCEPT !.ext = "mp3.list"]

Exists(fs, p) == p \in DOMAIN fs

WriteTo(fs, p, data) == [q \in DOMAIN fs \cup {p} |-> IF q = p THEN data ELSE fs[q]]

Remove(fs, p) == [q \in DOMAIN fs \ {p} |-> fs[q]]

\* The outcome of a write of data to p.
WriteOutcome(fs, p, data, outcome) ==
    CASE outcome = "ok" -> WriteTo(fs, p, data)
      [] outcome = "fail_partial" -> WriteTo(fs, p, <<>>)
      [] OTHER -> fs

\* The bytes of a file's content: a chunk of this request's body is named
\* by its index, a chunk of the second request's body by a negative number.
RECURSIVE SumSizes(_)
SumSizes(data) ==
    IF data = <<>> THEN 0
    ELSE (IF Head(data) >= 0 THEN audioChunks[Head(data) + 1] ELSE other.size)
         + SumSizes(Tail(data))

\* (await fs.promises.stat(mp3Path)).size
StatSize(fs, p) == SumSizes(fs[p])

RECURSIVE Concat_Reversed(_, _)
Concat_Reversed(fs, paths) ==
    IF paths = <<>> THEN <<>> ELSE Concat_Reversed(fs, Tail(paths)) \o fs[Head(paths)]

RECURSIVE Concat(_, _)
Concat(fs, paths) ==
    IF paths = <<>> THEN <<>> ELSE fs[Head(paths)] \o Concat(fs, Tail(paths))

RECURSIVE RemoveAll(_, _)
RemoveAll(fs, paths) ==
    IF paths = <<>> THEN fs ELSE RemoveAll(Remove(fs, Head(paths)), Tail(paths))

AllExist(fs, paths) == \A k \in 1..Len(paths) : Exists(fs, paths[k])

\* Milliseconds; Date.now() when the handler is entered.
Minute == 60 * 1000
Epoch == 100 * Minute

\* cleanupOldTempFiles(30) was called on entry of the handler and is at its
\* first await, the stat of the temp directory.
sweepInitial ==
    [pc |-> "stat_dir", maxAgeMinutes |-> 30, listing |-> <<>>, i |-> 0, now |-> 0,
     cleanedCount |-> 0, deleted |-> {}, failed |-> {}, caught |-> FALSE]

\* What a step of the handler does to the rest of the directory's state:
\* a file it created or rewrote carries the current time.
Stamp ==
    /\ mtime' = [p \in DOMAIN mtime \cup DOMAIN files' |->
                    IF p \in DOMAIN files' /\ (p \notin DOMAIN files \/ files'[p] # files[p])
                    THEN clock ELSE mtime[p]]
    /\ UNCHANGED <<clock, sweep>>

\* An empty temp directory.
EmptyTempDir ==
    /\ files = [p \in {} |-> <<>>]
    /\ mtime = [p \in {} |-> 0]
    /\ clock = Epoch
    /\ sweep = sweepInitial

NoResponse == [status |-> 0, files |-> <<>>, originalChunks |-> 0]

reqInitial ==
    [pc |-> "parse", timestamp |-> 1, i |-> 0,
     tempFiles |-> <<>>, convertedFiles |-> <<>>, mergedFiles |-> <<>>,
     currentBatch |-> <<>>, currentBatchSize |-> 0, batchIndex |-> 0,
     fileSize |-> 0, after |-> "", thrown |-> FALSE, response |-> NoResponse]

\* if (currentBatchSize + fileSize > maxSizeBytes && currentBatch.length > 0)
routeBatchIsFull_IgnoresNext(batchSize, fileSize, maxBytes, batchLen) ==
    batchSize > maxBytes /\ batchLen > 0

routeBatchIsFull_AtLimit(batchSize, fileSize, maxBytes, batchLen) ==
    batchSize + fileSize >= maxBytes /\ batchLen > 0

routeBatchIsFull(batchSize, fileSize, maxBytes, batchLen) ==
    batchSize + fileSize > maxBytes /\ batchLen > 0

\* An exception inside the inner try: on to its finally block.
Throw(r) == [r EXCEPT !.pc = "finally", !.thrown = TRUE]

\* The position after Step 2 is over, or after a batch is pushed or closed:
\* the next file of convertedFiles, the remaining batch, or the response.
AfterBatchStep(r, j) ==
    IF j < Len(r.convertedFiles) THEN [r EXCEPT !.pc = "stat", !.i = j]
    ELSE IF Len(r.currentBatch) > 0 THEN [r EXCEPT !.pc = "merge", !.i = j, !.after = "final"]
    ELSE [r EXCEPT !.pc = "finally", !.i = j]

\* The position after Step 1 is over.
AfterWrite(r, i) ==
    IF i < Len(audioChunks) THEN [r EXCEPT !.pc = "write", !.i = i]
    ELSE IF Len(r.tempFiles) > 0 THEN [r EXCEPT !.pc = "convert", !.i = 0]
    ELSE AfterBatchStep(r, 0)

\* const body = await request.json(); the check of audioChunks.
RouteParseBody ==
    /\ component = "ProcessRoute"
    /\ req.pc = "parse"
    /\ req' = CASE bodyKind = "bad_json" ->
                     [req EXCEPT !.pc = "returned",
                                 !.response = [NoResponse EXCEPT !.status = 500]]
                [] bodyKind = "no_chunks" ->
                     [req EXCEPT !.pc = "returned",
                                 !.response = [NoResponse EXCEPT !.status = 400]]
                [] OTHER -> \* const timestamp = Date.now()
                            AfterWrite([req EXCEPT !.timestamp = clock], 0)
    /\ UNCHANGED <<audioChunks, maxSizeMB, bodyKind, other, files, component, orchVars, stitchVars>>
    /\ Stamp

\* Step 1: await writeFile(tempWavPath, audioBuffer); tempFiles.push(tempWavPath)
RouteWriteChunk(outcome) ==
    /\ component = "ProcessRoute"
    /\ req.pc = "write"
    /\ LET p == tempWavPath(req.timestamp, req.i)
       IN /\ files' = WriteOutcome(files, p, <<req.i>>, outcome)
          /\ req' = IF outcome = "ok"
                    THEN AfterWrite([req EXCEPT !.tempFiles = Append(@, p)], req.i + 1)
                    ELSE Throw(req)
    /\ UNCHANGED <<audioChunks, maxSizeMB, bodyKind, other, component, orchVars, stitchVars>>
    /\ Stamp

\* Step 2: await convertWavToMp3(wavPath, mp3Path, bitrate);
\* convertedFiles.push(mp3Path)
RouteConvert(outcome) ==
    /\ component = "ProcessRoute"
    /\ req.pc = "convert"
    /\ LET wav == req.tempFiles[req.i + 1]
           mp3 == mp3Path(req.timestamp, req.i)
       IN IF Exists(files, wav)
          THEN /\ files' = WriteOutcome(files, mp3, files[wav], outcome)
               /\ req' = IF outcome = "ok"
                         THEN [req EXCEPT !.convertedFiles = Append(@, mp3),
                                          !.pc = "unlink_wav"]
                         ELSE Throw(req)
          ELSE \* ffmpeg finds no input
               /\ outcome = "fail"
               /\ req' = Throw(req)
               /\ UNCHANGED files
    /\ UNCHANGED <<audioChunks, maxSizeMB, bodyKind, other, component, orchVars, stitchVars>>
    /\ Stamp

\* Step 2: await unlink(wavPath)
RouteUnlinkWav ==
    /\ component = "ProcessRoute"
    /\ req.pc = "unlink_wav"
    /\ LET wav == req.tempFiles[req.i + 1]
       IN IF Exists(files, wav)
          THEN /\ files' = Remove(files, wav)
               /\ req' = IF req.i + 1 < Len(req.tempFiles)
                         THEN [req EXCEPT !.pc = "convert", !.i = req.i + 1]
                         ELSE AfterBatchStep(req, 0)
          ELSE /\ req' = Throw(req)
               /\ UNCHANGED files
    /\ UNCHANGED <<audioChunks, maxSizeMB, bodyKind, other, component, orchVars, stitchVars>>
    /\ Stamp

\* Step 3, one file of convertedFiles: its size, then either the current
\* batch is closed (merged) or the file joins it.
RouteBatchFile ==
    /\ component = "ProcessRoute"
    /\ req.pc = "stat"
    /\ LET p == req.convertedFiles[req.i + 1]
       IN IF ~Exists(files, p)
          THEN req' = Throw(req)
          ELSE LET fileSize == StatSize(files, p)
               IN IF routeBatchIsFull(req.currentBatchSize, fileSize, maxSizeBytes,
                                      Len(req.currentBatch))
                  THEN req' = [req EXCEPT !.pc = "merge", !.fileSize = fileSize,
                                          !.after = "loop"]
                  ELSE req' = AfterBatchStep(
                                 [req EXCEPT !.currentBatch = Append(@, p),
                                             !.currentBatchSize = @ + fileSize,
                                             !.fileSize = fileSize],
                                 req.i + 1)
    /\ UNCHANGED <<audioChunks, maxSizeMB, bodyKind, other, files, component, orchVars, stitchVars>>
    /\ Stamp

\* for (const file of paths) await unlink(file): stops at the first file
\* that is not there.
RECURSIVE UnlinkEach(_, _)
UnlinkEach(fs, paths) ==
    IF paths = <<>> THEN [fs |-> fs, ok |-> TRUE]
    ELSE IF ~Exists(fs, Head(paths)) THEN [fs |-> fs, ok |-> FALSE]
    ELSE UnlinkEach(Remove(fs, Head(paths)), Tail(paths))

\* mergeAudioFiles, one input: await fs.promises.copyFile(inputPaths[0], outputPath)
RouteCopyFile(outcome) ==
    /\ component = "ProcessRoute"
    /\ req.pc = "merge"
    /\ Len(req.currentBatch) = 1
    /\ LET out == outputPath(req.timestamp, req.batchIndex)
       IN IF AllExist(files, req.currentBatch)
          THEN /\ files' = WriteOutcome(files, out, Concat(files, req.currentBatch), outcome)
               /\ req' = IF outcome = "ok" THEN [req EXCEPT !.pc = "read"] ELSE Throw(req)
          ELSE /\ outcome = "fail"
               /\ req' = Throw(req)
               /\ UNCHANGED files
    /\ UNCHANGED <<audioChunks, maxSizeMB, bodyKind, other, component, orchVars, stitchVars>>
    /\ Stamp

\* mergeAudioFiles, several inputs: await writeFile(listPath, listContent)
RouteWriteList(outcome) ==
    /\ component = "ProcessRoute"
    /\ req.pc = "merge"
    /\ Len(req.currentBatch) # 1
    /\ LET list == listPath(outputPath(req.timestamp, req.batchIndex))
       IN /\ files' = WriteOutcome(files, list, <<>>, outcome)
          /\ req' = IF outcome = "ok" THEN [req EXCEPT !.pc = "concat"] ELSE Throw(req)
    /\ UNCHANGED <<audioChunks, maxSizeMB, bodyKind, other, component, orchVars, stitchVars>>
    /\ Stamp

\* mergeAudioFiles, several inputs: try { await runFFmpeg(args) }
\* finally { await unlink(listPath) }, a failed unlink only logged.
RouteConcat(outcome) ==
    /\ component = "ProcessRoute"
    /\ req.pc = "concat"
    /\ LET out == outputPath(req.timestamp, req.batchIndex)
           ran == IF AllExist(files, req.currentBatch)
                  THEN WriteOutcome(files, out, Concat(files, req.currentBatch), outcome)
                  ELSE files
       IN /\ AllExist(files, req.currentBatch) \/ outcome = "fail"
          /\ files' = Remove(ran, listPath(out))
          /\ req' = IF outcome = "ok" THEN [req EXCEPT !.pc = "read"] ELSE Throw(req)
    /\ UNCHANGED <<audioChunks, maxSizeMB, bodyKind, other, component, orchVars, stitchVars>>
    /\ Stamp

\* const mergedBuffer = await readFile(outputPath); mergedFiles.push(mergedBuffer)
RouteReadMerged(ok) ==
    /\ component = "ProcessRoute"
    /\ req.pc = "read"
    /\ LET out == outputPath(req.timestamp, req.batchIndex)
       IN /\ Exists(files, out) \/ ~ok
          /\ req' = IF ok
                    THEN [req EXCEPT !.mergedFiles = Append(@, files[out]),
                                     !.pc = "unlink_batch"]
                    ELSE Throw(req)
    /\ UNCHANGED <<audioChunks, maxSizeMB, bodyKind, other, files, component, orchVars, stitchVars>>
    /\ Stamp

\* for (const file of currentBatch) await unlink(file); await unlink(outputPath);
\* then the new batch [mp3Path] of the loop, or the end of Step 3.
RouteUnlinkBatch ==
    /\ component = "ProcessRoute"
    /\ req.pc = "unlink_batch"
    /\ LET out == outputPath(req.timestamp, req.batchIndex)
           un == UnlinkEach(files, req.currentBatch \o <<out>>)
       IN /\ files' = un.fs
          /\ req' = IF ~un.ok THEN Throw(req)
                    ELSE IF req.after = "loop"
                    THEN AfterBatchStep(
                            [req EXCEPT !.currentBatch = <<req.convertedFiles[req.i + 1]>>,
                                        !.currentBatchSize = req.fileSize,
                                        !.batchIndex = @ + 1],
                            req.i + 1)
                    ELSE [req EXCEPT !.pc = "finally"]
    /\ UNCHANGED <<audioChunks, maxSizeMB, bodyKind, other, component, orchVars, stitchVars>>
    /\ Stamp

\* The inner finally block: every path of tempFiles and convertedFiles is
\* unlinked, a failure only logged. Then the response: the merged files, or
\* the outer catch's 500.
RouteFinally ==
    /\ component = "ProcessRoute"
    /\ req.pc = "finally"
    /\ files' = RemoveAll(files, req.tempFiles \o req.convertedFiles)
    /\ req' = [req EXCEPT
                 !.pc = "returned",
                 !.response = IF req.thrown
                              THEN [NoResponse EXCEPT !.status = 500]
                              ELSE [status |-> 200, files |-> req.mergedFiles,
                                    originalChunks |-> Len(audioChunks)]]
    /\ UNCHANGED <<audioChunks, maxSizeMB, bodyKind, other, component, orchVars, stitchVars>>
    /\ Stamp

-----------------------------------------------------------------------------
(* cleanupOldTempFiles *)

\* Files left in the temp directory by earlier requests, and one that no
\* request of this handler writes.
ForeignNames ==
    {[kind |-> "chunk", ts |-> 0, n |-> 0, ext |-> "wav"],
     [kind |-> "merged", ts |-> 0, n |-> 0, ext |-> "mp3"],
     [kind |-> "upload", ts |-> 0, n |-> 0, ext |-> "txt"]}

\* Their ages when the handler is entered: 10 minutes, exactly 30, one
\* millisecond more, 45 minutes.
FileAges == {10 * Minute, 30 * Minute, 30 * Minute + 1, 45 * Minute}

MaxOldFiles == 2

\* const maxAge = maxAgeMinutes * 60 * 1000
maxAge(maxAgeMinutes) == maxAgeMinutes * 60 * 1000

\* if (fileAge > maxAge)
janitorIsOld_Inclusive(fileAge, limit) == fileAge >= limit

janitorIsOld(fileAge, limit) == fileAge > limit

\* The orders in which readdir can list a set of files.
Listings(S) ==
    {l \in [1..Cardinality(S) -> S] : \A a, b \in 1..Cardinality(S) : l[a] = l[b] => a = b}

\* The for loop goes to its next file, or the sweep ends.
sweepNextFile(s) ==
    IF s.i + 1 < Len(s.listing)
    THEN [s EXCEPT !.pc = "stat", !.i = s.i + 1]
    ELSE [s EXCEPT !.pc = "done"]

\* const stats = await fs.promises.stat(tempDir): the directory, something
\* that is not one (return), or a rejection (the outer catch).
JanitorStatDir(outcome) ==
    /\ component = "ProcessRoute"
    /\ sweep.pc = "stat_dir"
    /\ sweep' = [sweep EXCEPT !.pc = IF outcome = "ok" THEN "readdir" ELSE "done",
                              !.caught = outcome \in {"enoent", "error"}]
    /\ UNCHANGED <<audioChunks, maxSizeMB, bodyKind, other, files, req, clock, mtime,
                   component, orchVars, stitchVars>>

\* The handler awaiting a sweep that rethrows: a rejection of readdir
\* becomes the request's failure.
JanitorReaddir_Surfaces(ok) ==
    /\ component = "ProcessRoute"
    /\ sweep.pc = "readdir"
    /\ ~ok
    /\ req.pc # "returned"
    /\ sweep' = [sweep EXCEPT !.pc = "done", !.caught = TRUE]
    /\ req' = [req EXCEPT !.pc = "returned",
                          !.response = [NoResponse EXCEPT !.status = 500]]
    /\ UNCHANGED <<audioChunks, maxSizeMB, bodyKind, other, files, clock, mtime,
                   component, orchVars, stitchVars>>

\* const files = await fs.promises.readdir(tempDir); const now = Date.now();
\* a rejection goes to the outer catch, which logs it.
JanitorReaddir(ok) ==
    /\ component = "ProcessRoute"
    /\ sweep.pc = "readdir"
    /\ IF ok
       THEN \E l \in Listings(DOMAIN files) :
               sweep' = IF Len(l) = 0
                        THEN [sweep EXCEPT !.pc = "done", !.now = clock]
                        ELSE [sweep EXCEPT !.pc = "stat", !.listing = l, !.i = 0,
                                           !.now = clock]
       ELSE sweep' = [sweep EXCEPT !.pc = "done", !.caught = TRUE]
    /\ UNCHANGED <<audioChunks, maxSizeMB, bodyKind, other, files, req, clock, mtime,
                   component, orchVars, stitchVars>>

\* const fileStats = await fs.promises.stat(filePath) and the test of the
\* file's age; a rejection is caught and the loop goes on.
JanitorStat(ok) ==
    /\ component = "ProcessRoute"
    /\ sweep.pc = "stat"
    /\ LET p == sweep.listing[sweep.i + 1]
       IN IF ok
          THEN /\ Exists(files, p)
               /\ LET fileAge == sweep.now - mtime[p]
                  IN sweep' = IF janitorIsOld(fileAge, maxAge(sweep.maxAgeMinutes))
                              THEN [sweep EXCEPT !.pc = "unlink"]
                              ELSE sweepNextFile(sweep)
          ELSE sweep' = sweepNextFile([sweep EXCEPT !.failed = @ \cup {p}])
    /\ UNCHANGED <<audioChunks, maxSizeMB, bodyKind, other, files, req, clock, mtime,
                   component, orchVars, stitchVars>>

\* The sweep with no try/catch inside its loop: a rejection ends it in the
\* outer catch.
JanitorUnlink_Aborts(ok) ==
    /\ component = "ProcessRoute"
    /\ sweep.pc = "unlink"
    /\ LET p == sweep.listing[sweep.i + 1]
       IN IF ok
          THEN /\ Exists(files, p)
               /\ files' = Remove(files, p)
               /\ sweep' = sweepNextFile([sweep EXCEPT !.deleted = @ \cup {p},
                                                       !.cleanedCount = @ + 1])
          ELSE /\ sweep' = [sweep EXCEPT !.failed = @ \cup {p}, !.pc = "done"]
               /\ UNCHANGED files
    /\ UNCHANGED <<audioChunks, maxSizeMB, bodyKind, other, req, clock, mtime,
                   component, orchVars, stitchVars>>

\* await fs.promises.unlink(filePath); cleanedCount++; a rejection is
\* caught and the loop goes on.
JanitorUnlink(ok) ==
    /\ component = "ProcessRoute"
    /\ sweep.pc = "unlink"
    /\ LET p == sweep.listing[sweep.i + 1]
       IN IF ok
          THEN /\ Exists(files, p)
               /\ files' = Remove(files, p)
               /\ sweep' = sweepNextFile([sweep EXCEPT !.deleted = @ \cup {p},
                                                       !.cleanedCount = @ + 1])
          ELSE /\ sweep' = sweepNextFile([sweep EXCEPT !.failed = @ \cup {p}])
               /\ UNCHANGED files
    /\ UNCHANGED <<audioChunks, maxSizeMB, bodyKind, other, req, clock, mtime,
                   component, orchVars, stitchVars>>

\* The request or the sweep that owns an older file removes it.
OtherUnlink(p) ==
    /\ component = "ProcessRoute"
    /\ p \in ForeignNames
    /\ Exists(files, p)
    /\ files' = Remove(files, p)
    /\ UNCHANGED <<audioChunks, maxSizeMB, bodyKind, other, req, clock, mtime, sweep,
                   component, orchVars, stitchVars>>

-----------------------------------------------------------------------------
(* A second POST /api/tts/process, served while the first is in flight.   *)
(* It is followed through Step 1 and Step 2 of the handler and, when a    *)
(* conversion fails, through the finally block.                           *)

MaxTicks == 1
OtherChunks == {1}

\* The request has not arrived.
otherInitial ==
    [pc |-> "absent", timestamp |-> 0, n |-> 0, size |-> 0, i |-> 0,
     tempFiles |-> <<>>, convertedFiles |-> <<>>]

\* Time passes while the handlers await: 31 minutes.
Tick ==
    /\ component = "ProcessRoute"
    /\ clock < Epoch + MaxTicks * 31 * Minute
    /\ clock' = clock + 31 * Minute
    /\ UNCHANGED <<audioChunks, maxSizeMB, bodyKind, other, files, req, mtime, sweep,
                   component, orchVars, stitchVars>>

\* The handler is entered: cleanupOldTempFiles(30) is started and not
\* awaited. One sweep is followed at a time: the earlier one is over.
OtherEnter(n) ==
    /\ component = "ProcessRoute"
    /\ other.pc = "absent"
    /\ sweep.pc = "done"
    /\ other' = [other EXCEPT !.pc = "parse", !.n = n, !.size = 524288]
    /\ sweep' = sweepInitial
    /\ UNCHANGED <<audioChunks, maxSizeMB, bodyKind, files, req, clock, mtime,
                   component, orchVars, stitchVars>>

\* const body = await request.json(); const timestamp = Date.now()
OtherParseBody ==
    /\ component = "ProcessRoute"
    /\ other.pc = "parse"
    /\ other' = [other EXCEPT !.pc = "write", !.timestamp = clock]
    /\ UNCHANGED <<audioChunks, maxSizeMB, bodyKind, files, req, component, orchVars,
                   stitchVars>>
    /\ Stamp

\* Step 1: await writeFile(tempWavPath, audioBuffer); tempFiles.push(tempWavPath)
OtherWriteChunk ==
    /\ component = "ProcessRoute"
    /\ other.pc = "write"
    /\ LET p == tempWavPath(other.timestamp, other.i)
       IN /\ files' = WriteTo(files, p, <<-(other.i + 1)>>)
          /\ other' = IF other.i + 1 < other.n
                      THEN [other EXCEPT !.tempFiles = Append(@, p), !.i = @ + 1]
                      ELSE [other EXCEPT !.tempFiles = Append(@, p), !.i = 0,
                                         !.pc = "convert"]
    /\ UNCHANGED <<audioChunks, maxSizeMB, bodyKind, req, component, orchVars,
                   stitchVars>>
    /\ Stamp

\* Step 2: await convertWavToMp3(wavPath, mp3Path, bitrate);
\* convertedFiles.push(mp3Path); ffmpeg fails when its input is gone.
OtherConvert ==
    /\ component = "ProcessRoute"
    /\ other.pc = "convert"
    /\ LET wav == other.tempFiles[other.i + 1]
           mp3 == mp3Path(other.timestamp, other.i)
       IN IF Exists(files, wav)
          THEN /\ files' = WriteTo(files, mp3, files[wav])
               /\ other' = [other EXCEPT !.convertedFiles = Append(@, mp3),
                                         !.pc = "unlink_wav"]
          ELSE /\ other' = [other EXCEPT !.pc = "finally"]
               /\ UNCHANGED files
    /\ UNCHANGED <<audioChunks, maxSizeMB, bodyKind, req, component, orchVars,
                   stitchVars>>
    /\ Stamp

\* Step 2: await unlink(wavPath); after the last file the handler is at
\* Step 3.
OtherUnlinkWav ==
    /\ component = "ProcessRoute"
    /\ other.pc = "unlink_wav"
    /\ LET wav == other.tempFiles[other.i + 1]
       IN IF Exists(files, wav)
          THEN /\ files' = Remove(files, wav)
               /\ other' = IF other.i + 1 < Len(other.tempFiles)
                           THEN [other EXCEPT !.pc = "convert", !.i = @ + 1]
                           ELSE [other EXCEPT !.pc = "merge"]
          ELSE /\ other' = [other EXCEPT !.pc = "finally"]
               /\ UNCHANGED files
    /\ UNCHANGED <<audioChunks, maxSizeMB, bodyKind, req, component, orchVars,
                   stitchVars>>
    /\ Stamp

\* The inner finally block and the outer catch's 500.
OtherFinally ==
    /\ component = "ProcessRoute"
    /\ other.pc = "finally"
    /\ files' = RemoveAll(files, other.tempFiles \o other.convertedFiles)
    /\ other' = [other EXCEPT !.pc = "returned"]
    /\ UNCHANGED <<audioChunks, maxSizeMB, bodyKind, req, component, orchVars,
                   stitchVars>>
    /\ Stamp

RECURSIVE SeqsUpTo(_, _)
SeqsUpTo(S, n) ==
    IF n = 0 THEN {<<>>}
    ELSE LET shorter == SeqsUpTo(S, n - 1)
         IN shorter \cup {Append(s, x) : s \in shorter, x \in S}

InitRouteState ==
    /\ audioChunks \in SeqsUpTo(FileSizes, MaxArtifacts)
    /\ maxSizeMB \in MaxSizeMBs
    /\ bodyKind \in BodyKinds
    /\ bodyKind # "ok" => audioChunks = <<>>
    /\ EmptyTempDir
    /\ req = reqInitial
    /\ other = otherInitial

-----------------------------------------------------------------------------
(* AudioStitcher *)

\* buffer.length of a decoded file: its WAV estimate is a third of the
\* limit and a bit, exactly half of it, or two bytes above it.
BufferLengths == {5242858, 7864298, 15728619}
OutputFormats == {"wav", "mp3"}

\* const maxFileSize = 30 * 1024 * 1024
maxFileSize == 30 * 1024 * 1024

\* const estimatedSize = buffer.length * 2 + 44
estimatedSize(length) == length * 2 + 44

\* if (currentGroupSize + estimatedSize > maxFileSize && currentGroup.length > 0)
stitchGroupIsFull_IgnoresGroup(groupSize, size, maxBytes, groupLen) ==
    size > maxBytes /\ groupLen > 0

stitchGroupIsFull_AllowsEmpty(groupSize, size, maxBytes, groupLen) ==
    groupSize + size > maxBytes

stitchGroupIsFull(groupSize, size, maxBytes, groupLen) ==
    groupSize + size > maxBytes /\ groupLen > 0

stitchInitial ==
    [pc |-> "idle", isStitching |-> FALSE, progress |-> Percent(0), error |-> "",
     i |-> 0, loaded |-> <<>>, currentGroup |-> <<>>, currentGroupSize |-> 0,
     groupIndex |-> 1, stitchedFiles |-> <<>>, after |-> "", completed |-> <<>>,
     encoderThrew |-> <<>>]

\* The grouping loop from index i up to its next await: buffers join the
\* current group until one does not fit (the group is then processed) or
\* the loop is over (the final group is processed).
RECURSIVE stitchGroupFrom(_, _)
stitchGroupFrom(s, i) ==
    IF i >= Len(s.loaded)
    THEN [s EXCEPT !.pc = "process", !.i = i, !.after = "final"]
    ELSE LET size == estimatedSize(audioBuffers[s.loaded[i + 1] + 1])
         IN IF stitchGroupIsFull(s.currentGroupSize, size, maxFileSize, Len(s.currentGroup))
            THEN [s EXCEPT !.pc = "process", !.i = i, !.after = "loop"]
            ELSE stitchGroupFrom(
                    [s EXCEPT !.currentGroup = Append(@, s.loaded[i + 1]),
                              !.currentGroupSize = @ + size,
                              !.progress = <<30 * Len(s.loaded) + 40 * i, Len(s.loaded)>>],
                    i + 1)

\* The Stitch button (shown while !isStitching); nothing happens without files.
StitchStart ==
    /\ component = "AudioStitcher"
    /\ ~stitch.isStitching
    /\ Len(audioBuffers) > 0
    /\ Len(stitch.completed) < MaxRuns
    /\ stitch' = [stitchInitial EXCEPT !.pc = "load", !.isStitching = TRUE,
                                       !.progress = <<0, Len(audioBuffers)>>,
                                       !.completed = stitch.completed]
    /\ UNCHANGED <<audioBuffers, outputFormat, component, orchVars, routeVars>>

\* const buffer = await loadAudioBuffer(audioFiles[i].url); a failure ends
\* the run in the catch block.
StitchLoad(ok) ==
    /\ component = "AudioStitcher"
    /\ stitch.pc = "load"
    /\ stitch' =
         IF ~ok
         THEN [stitch EXCEPT !.pc = "done", !.error = "Stitching failed",
                             !.isStitching = FALSE]
         ELSE LET s == [stitch EXCEPT !.loaded = Append(@, stitch.i)]
              IN IF stitch.i + 1 < Len(audioBuffers)
                 THEN [s EXCEPT !.i = stitch.i + 1,
                                !.progress = <<30 * (stitch.i + 1), Len(audioBuffers)>>]
                 ELSE stitchGroupFrom(s, 0)
    /\ UNCHANGED <<audioBuffers, outputFormat, component, orchVars, routeVars>>

\* processGroup: the group's buffers are concatenated and written as WAV,
\* or as MP3 with WAV as the fallback when the encoder throws.
processGroup(group, groupIndex, encoderThrows) ==
    [index |-> groupIndex,
     extension |-> IF outputFormat = "wav" \/ encoderThrows THEN "wav" ELSE "mp3",
     data |-> group]

\* processGroup without the try/catch around wavToMp3: the encoder's
\* exception ends the run in the catch block of stitchAudioFiles.
StitchProcessGroup_NoFallback(encoderThrows) ==
    /\ component = "AudioStitcher"
    /\ stitch.pc = "process"
    /\ encoderThrows
    /\ outputFormat = "mp3"
    /\ stitch' = [stitch EXCEPT !.pc = "done", !.error = "Stitching failed",
                                !.isStitching = FALSE,
                                !.encoderThrew = Append(@, TRUE)]
    /\ UNCHANGED <<audioBuffers, outputFormat, component, orchVars, routeVars>>

\* await processGroup(currentGroup, groupIndex, stitchedFiles), then the
\* rest of the loop body, or the end of the run.  encoderThrew keeps, per
\* group processed, whether wavToMp3 threw.
StitchProcessGroup(encoderThrows) ==
    /\ component = "AudioStitcher"
    /\ stitch.pc = "process"
    /\ encoderThrows => outputFormat = "mp3"
    /\ LET out == IF Len(stitch.currentGroup) = 0 THEN stitch.stitchedFiles
                  ELSE Append(stitch.stitchedFiles,
                              processGroup(stitch.currentGroup, stitch.groupIndex,
                                           encoderThrows))
           n == Len(stitch.loaded)
           threw == IF Len(stitch.currentGroup) = 0 THEN stitch.encoderThrew
                    ELSE Append(stitch.encoderThrew, encoderThrows)
       IN stitch' =
            IF stitch.after = "loop"
            THEN stitchGroupFrom(
                    [stitch EXCEPT
                       !.stitchedFiles = out,
                       !.encoderThrew = threw,
                       !.groupIndex = @ + 1,
                       !.currentGroup = <<stitch.loaded[stitch.i + 1]>>,
                       !.currentGroupSize =
                           estimatedSize(audioBuffers[stitch.loaded[stitch.i + 1] + 1]),
                       !.progress = <<30 * n + 40 * stitch.i, n>>],
                    stitch.i + 1)
            ELSE [stitch EXCEPT !.stitchedFiles = out, !.progress = Percent(100),
                                !.encoderThrew = threw,
                                !.completed = Append(@, out),
                                !.isStitching = FALSE, !.pc = "done"]
    /\ UNCHANGED <<audioBuffers, outputFormat, component, orchVars, routeVars>>

InitStitchState ==
    /\ audioBuffers \in SeqsUpTo(BufferLengths, MaxArtifacts)
    /\ outputFormat \in OutputFormats
    /\ stitch = stitchInitial

-----------------------------------------------------------------------------
(* BatchProcessor.chunkText *)

\* A text is a sequence of characters; these are the ones texts are made of.
Alphabet == {"a", " ", ".", "!", "\n"}
Terminators == {".", "!", "?"}
Whitespace == {" ", "\n"}

MaxTextLen == 5
ChunkSizes == {3, 4, 6}

\* String.prototype.trim
RECURSIVE TrimLeft(_)
TrimLeft(s) ==
    IF s # <<>> /\ Head(s) \in Whitespace THEN TrimLeft(Tail(s)) ELSE s

RECURSIVE TrimRight(_)
TrimRight(s) ==
    IF s # <<>> /\ s[Len(s)] \in Whitespace THEN TrimRight(SubSeq(s, 1, Len(s) - 1)) ELSE s

Trim(s) == TrimRight(TrimLeft(s))

\* s.endsWith('.') || s.endsWith('!') || s.endsWith('?')
EndsWithTerminator(s) == s # <<>> /\ s[Len(s)] \in Terminators

\* The length of the match of /\n\s*\n/ at the head of s (0: no match):
\* a line break, the longest run of whitespace that still leaves a line
\* break to end on, and that line break.
ParagraphBreakLen(s) ==
    IF s = <<>> \/ Head(s) # "\n" THEN 0
    ELSE LET ends == {j \in 2..Len(s) :
                        /\ s[j] = "\n"
                        /\ \A k \in 2..j : s[k] \in Whitespace}
         IN IF ends = {} THEN 0
            ELSE CHOOSE j \in ends : \A k \in ends : k <= j

\* text.split(/\n\s*\n/)
RECURSIVE SplitParagraphs(_, _)
SplitParagraphs(s, cur) ==
    IF s = <<>> THEN <<cur>>
    ELSE LET n == ParagraphBreakLen(s)
         IN IF n > 0
            THEN <<cur>> \o SplitParagraphs(SubSeq(s, n + 1, Len(s)), <<>>)
            ELSE SplitParagraphs(Tail(s), Append(cur, Head(s)))

\* paragraph.split(/[.!?]+/): the pieces between runs of terminators.
RECURSIVE SplitSentences(_, _)
SplitSentences(s, cur) ==
    IF s = <<>> THEN <<cur>>
    ELSE IF Head(s) \in Terminators
         THEN LET rest == Tail(s)
              IN IF rest # <<>> /\ Head(rest) \in Terminators
                 THEN SplitSentences(rest, cur)
                 ELSE <<cur>> \o SplitSentences(rest, <<>>)
         ELSE SplitSentences(Tail(s), Append(cur, Head(s)))

\* .filter(s => s.trim().length > 0)
NonBlank(pieces) == SelectSeq(pieces, LAMBDA x : Trim(x) # <<>>)

\* currentChunk with a full stop unless it ends with a terminator
WithFullStop(s) == IF EndsWithTerminator(s) THEN s ELSE Append(s, ".")

\* The inner loop, over the sentences of one paragraph; st holds chunks
\* and currentChunk.
RECURSIVE chunkSentences(_, _, _)
chunkSentences(sentences, st, size) ==
    IF sentences = <<>> THEN st
    ELSE LET trimmedSentence == Trim(Head(sentences))
             potentialChunk == IF st.currentChunk # <<>>
                               THEN st.currentChunk \o <<".", " ">> \o trimmedSentence
                               ELSE trimmedSentence
         IN IF trimmedSentence = <<>>
            THEN chunkSentences(Tail(sentences), st, size)
            ELSE IF Len(potentialChunk) > size /\ st.currentChunk # <<>>
                 THEN chunkSentences(
                         Tail(sentences),
                         [chunks |-> Append(st.chunks, WithFullStop(st.currentChunk)),
                          currentChunk |-> trimmedSentence],
                         size)
                 ELSE chunkSentences(Tail(sentences),
                                     [st EXCEPT !.currentChunk = potentialChunk], size)

\* The outer loop, over the paragraphs, with the paragraph break added.
RECURSIVE chunkParagraphs(_, _, _)
chunkParagraphs(paragraphs, st, size) ==
    IF paragraphs = <<>> THEN st
    ELSE IF Trim(Head(paragraphs)) = <<>>
         THEN chunkParagraphs(Tail(paragraphs), st, size)
         ELSE LET after == chunkSentences(NonBlank(SplitSentences(Head(paragraphs), <<>>)),
                                          st, size)
                  broken == IF after.currentChunk # <<>>
                               /\ after.currentChunk[Len(after.currentChunk)] # "\n"
                            THEN [after EXCEPT !.currentChunk = Append(@, "\n")]
                            ELSE after
              IN chunkParagraphs(Tail(paragraphs), broken, size)

\* chunkText(text, maxChunkSize)
chunkText(t, size) ==
    LET st == chunkParagraphs(SplitParagraphs(t, <<>>),
                              [chunks |-> <<>>, currentChunk |-> <<>>], size)
    IN IF Trim(st.currentChunk) # <<>>
       THEN Append(st.chunks, WithFullStop(Trim(st.currentChunk)))
       ELSE st.chunks

chunkerInitial == [pc |-> "idle", chunks |-> <<>>, again |-> <<>>]

\* const chunks = chunkText(text)
ChunkText ==
    /\ component = "BatchProcessor"
    /\ chunker.pc = "idle"
    /\ chunker' = [chunker EXCEPT !.pc = "done",
                                  !.chunks = chunkText(text, maxChunkSize)]
    /\ UNCHANGED <<component, nChunks, server, bp, tts, runs, calls, bpProgress,
                   ttsProgress, completeLog, text, maxChunkSize, synthVars, processorVars,
                   routeVars, stitchVars>>

\* chunks.join(''): the chunks one after the other.
RECURSIVE joinChunks(_)
joinChunks(cs) == IF cs = <<>> THEN <<>> ELSE Head(cs) \o joinChunks(Tail(cs))

\* chunkText applied to the concatenation of what it returned.
ChunkAgain ==
    /\ component = "BatchProcessor"
    /\ chunker.pc = "done"
    /\ chunker' = [chunker EXCEPT !.pc = "again",
                                  !.again = chunkText(joinChunks(chunker.chunks),
                                                      maxChunkSize)]
    /\ UNCHANGED <<component, nChunks, server, bp, tts, runs, calls, bpProgress,
                   ttsProgress, completeLog, text, maxChunkSize, synthVars, processorVars,
                   routeVars, stitchVars>>

RestChunk == text = <<>> /\ maxChunkSize = 450 /\ chunker = chunkerInitial

-----------------------------------------------------------------------------
(* POST /api/tts: one chunk to the synthesis engine *)

\* The lengths of the text of a body, in characters: none, a chunk at the
\* chunker's default bound, 500, one more, and a long paragraph without
\* sentence punctuation, which the chunker returns whole.
ChunkLengths == {0, 450, 500, 501, 1200}
ProcessingModes == {"huggingface", "local"}

\* text.substring(start, end) of a text of len characters: the number of
\* characters it keeps, which are the first ones when start is 0.
substring(len, start, end) ==
    LET e == IF end < len THEN end ELSE len
        b == IF start < len THEN start ELSE len
    IN IF e > b THEN e - b ELSE 0

\* The handler is entered with processChunk's body; engine is the engine that
\* made the audio, engineText the length of the text it was given.
synthInitial(len, mode, useHf, hasLocal) ==
    [pc |-> "request", text |-> len, processingMode |-> mode,
     USE_HUGGINGFACE |-> useHf, HAS_LOCAL_MODEL |-> hasLocal,
     engine |-> "none", engineText |-> 0, status |-> 0]

\* const { text, ..., processingMode } = await request.json(); the check of
\* text; the choice of the engine.
SynthPost ==
    /\ component = "TtsRoute"
    /\ synth.pc = "request"
    /\ synth' = CASE synth.text = 0 ->
                       [synth EXCEPT !.pc = "returned", !.status = 400]
                  [] synth.processingMode = "huggingface" /\ synth.USE_HUGGINGFACE ->
                       [synth EXCEPT !.pc = "huggingface"]
                  [] synth.processingMode = "local" /\ synth.HAS_LOCAL_MODEL ->
                       [synth EXCEPT !.pc = "local"]
                  [] OTHER ->
                       [synth EXCEPT !.pc = "returned", !.status = 500]
    /\ UNCHANGED <<component, nChunks, server, bp, tts, runs, calls, bpProgress,
                   ttsProgress, completeLog, chunkVars, processorVars,
                   routeVars, stitchVars>>

\* audioBuffer = await generateWithHuggingFace(text, voice, format): the
\* body's text is posted as it is; a failure falls back to the local model
\* when there is one.
SynthHuggingFace(ok) ==
    /\ component = "TtsRoute"
    /\ synth.pc = "huggingface"
    /\ synth' = IF ok
                THEN [synth EXCEPT !.pc = "returned", !.status = 200,
                                   !.engine = "huggingface",
                                   !.engineText = synth.text]
                ELSE IF synth.HAS_LOCAL_MODEL
                THEN [synth EXCEPT !.pc = "local"]
                ELSE [synth EXCEPT !.pc = "returned", !.status = 500]
    /\ UNCHANGED <<component, nChunks, server, bp, tts, runs, calls, bpProgress,
                   ttsProgress, completeLog, chunkVars, processorVars,
                   routeVars, stitchVars>>

\* const audio = await generateWithLocalModel(text, voice):
\* tts.generate(text.substring(0, 500), { voice })
SynthLocal(ok) ==
    /\ component = "TtsRoute"
    /\ synth.pc = "local"
    /\ synth' = IF ok
                THEN [synth EXCEPT !.pc = "returned", !.status = 200,
                                   !.engine = "local",
                                   !.engineText = substring(synth.text, 0, 500)]
                ELSE [synth EXCEPT !.pc = "returned", !.status = 500]
    /\ UNCHANGED <<component, nChunks, server, bp, tts, runs, calls, bpProgress,
                   ttsProgress, completeLog, chunkVars, processorVars,
                   routeVars, stitchVars>>

RestSynth == synth = synthInitial(0, "huggingface", FALSE, FALSE)

-----------------------------------------------------------------------------
(* AudioProcessor *)

MaxAdded == 3
MaxRequests == 3

\* useState(false), useState([]), useState(null); body is the audioChunks of
\* the request in flight, sent the bodies of all requests so far, added the
\* number of calls of addAudioChunk. A chunk is named by its chunkIndex.
apInitial ==
    [isProcessing |-> FALSE, pendingChunks |-> <<>>, error |-> FALSE,
     pc |-> "idle", body |-> <<>>, sent |-> <<>>, added |-> 0, completed |-> 0]

\* setPendingChunks(prev => [...prev, chunk])
ApAddAudioChunk ==
    /\ component = "AudioProcessor"
    /\ ap.added < MaxAdded
    /\ ap' = [ap EXCEPT !.pendingChunks = Append(@, ap.added + 1),
                        !.added = @ + 1]
    /\ UNCHANGED <<component, nChunks, server, bp, tts, runs, calls, bpProgress,
                   ttsProgress, completeLog, chunkVars, synthVars,
                   routeVars, stitchVars>>

\* The timer of the auto-process effect (or forceProcess) calls
\* processChunks: if (pendingChunks.length === 0 || isProcessing) return;
\* setIsProcessing(true); setError(null); fetch with audioChunks:
\* pendingChunks.
ApProcessChunks ==
    /\ component = "AudioProcessor"
    /\ ap.pc = "idle"
    /\ Len(ap.pendingChunks) > 0
    /\ ~ap.isProcessing
    /\ Len(ap.sent) < MaxRequests
    /\ ap' = [ap EXCEPT !.isProcessing = TRUE, !.error = FALSE, !.pc = "fetch",
                        !.body = ap.pendingChunks,
                        !.sent = Append(@, ap.pendingChunks)]
    /\ UNCHANGED <<component, nChunks, server, bp, tts, runs, calls, bpProgress,
                   ttsProgress, completeLog, chunkVars, synthVars,
                   routeVars, stitchVars>>

\* The response: onProcessingComplete(processedFiles); setPendingChunks([]);
\* or the catch block's setError; finally setIsProcessing(false).
ApResponse(ok) ==
    /\ component = "AudioProcessor"
    /\ ap.pc = "fetch"
    /\ ap' = IF ok
             THEN [ap EXCEPT !.pc = "idle", !.isProcessing = FALSE, !.body = <<>>,
                             !.pendingChunks = <<>>, !.completed = @ + 1]
             ELSE [ap EXCEPT !.pc = "idle", !.isProcessing = FALSE, !.body = <<>>,
                             !.error = TRUE]
    /\ UNCHANGED <<component, nChunks, server, bp, tts, runs, calls, bpProgress,
                   ttsProgress, completeLog, chunkVars, synthVars,
                   routeVars, stitchVars>>

RestProcessor == ap = apInitial


-----------------------------------------------------------------------------
(* Specifications *)

runInitial == [pc |-> "idle", i |-> 0, audioFiles |-> <<>>, cancelled |-> FALSE]

InitOrchState ==
    /\ nChunks \in 0..MaxChunks
    /\ server = [showBatchProcessor |-> TRUE, batchProgress |-> Percent(0),
                 audioFiles |-> <<>>]
    /\ bp = bpInitial
    /\ tts = ttsInitial
    /\ runs = [r \in Runs |-> runInitial]
    /\ calls = [r \in Runs |-> <<>>]
    /\ bpProgress = [r \in Runs |-> <<>>]
    /\ ttsProgress = [r \in Runs |-> <<>>]
    /\ completeLog = [r \in Runs |-> <<>>]

\* The state of everything but the component observed.
RestOrch == nChunks = 0 /\ InitOrchState /\ RestChunk /\ RestSynth /\ RestProcessor
RestRoute == audioChunks = <<>> /\ maxSizeMB = 1 /\ bodyKind = "ok" /\ InitRouteState
RestStitch == audioBuffers = <<>> /\ outputFormat = "wav" /\ InitStitchState

InitOrch ==
    /\ component \in {"BatchProcessor", "TtsInterface"}
    /\ InitOrchState
    /\ RestChunk
    /\ RestSynth
    /\ RestProcessor
    /\ RestRoute
    /\ RestStitch

NextOrch ==
    \/ \E r \in Runs : BPStart(r)
    \/ \E r \in Runs : BPChunkSucceeded(r)
    \/ \E r \in Runs : BPDelayElapsed(r)
    \/ \E r \in Runs, m \in Messages : BPChunkFailed(r, m)
    \/ BPCancel
    \/ \E ok \in BOOLEAN : TtsInitKokoro(ok)
    \/ \E r \in Runs : TtsConvertToSpeech(r)
    \/ \E r \in Runs : TtsChunkSucceeded(r)
    \/ \E r \in Runs : TtsChunkFailed(r)


\* The chunk-synthesis orchestrators: BatchProcessor and TtsInterface.
SpecOrch == InitOrch /\ [][NextOrch]_vars

\* BatchProcessor alone, where every synthesis request eventually returns or
\* fails and every 500 ms delay elapses.
InitBatch == InitOrch /\ component = "BatchProcessor"

NextBatch ==
    \/ \E r \in Runs : BPStart(r)
    \/ \E r \in Runs : BPChunkSucceeded(r)
    \/ \E r \in Runs : BPDelayElapsed(r)
    \/ \E r \in Runs, m \in Messages : BPChunkFailed(r, m)
    \/ BPCancel

RequestSettles(r) == BPChunkSucceeded(r) \/ \E m \in Messages : BPChunkFailed(r, m)

SpecBatchLive ==
    /\ InitBatch
    /\ [][NextBatch]_vars
    /\ \A r \in Runs : WF_vars(RequestSettles(r)) /\ WF_vars(BPDelayElapsed(r))

\* chunkText on every text of up to MaxTextLen characters.
InitChunk ==
    /\ component = "BatchProcessor"
    /\ text \in SeqsUpTo(Alphabet, MaxTextLen)
    /\ maxChunkSize \in ChunkSizes
    /\ chunker = chunkerInitial
    /\ RestSynth
    /\ RestProcessor
    /\ nChunks = 0
    /\ InitOrchState
    /\ RestRoute
    /\ RestStitch

NextChunk == ChunkText \/ ChunkAgain

SpecChunk == InitChunk /\ [][NextChunk]_vars

InitMerge ==
    /\ component \in {"ProcessRoute", "AudioStitcher"}
    /\ IF component = "ProcessRoute"
       THEN InitRouteState /\ RestStitch
       ELSE InitStitchState /\ RestRoute
    /\ RestOrch

NextMerge ==
    \/ RouteParseBody
    \/ \E outcome \in Outcomes : RouteWriteChunk(outcome)
    \/ \E outcome \in Outcomes : RouteConvert(outcome)
    \/ RouteUnlinkWav
    \/ RouteBatchFile
    \/ \E outcome \in Outcomes : RouteCopyFile(outcome)
    \/ \E outcome \in Outcomes : RouteWriteList(outcome)
    \/ \E outcome \in Outcomes : RouteConcat(outcome)
    \/ \E ok \in BOOLEAN : RouteReadMerged(ok)
    \/ RouteUnlinkBatch
    \/ RouteFinally
    \/ StitchStart
    \/ \E ok \in BOOLEAN : StitchLoad(ok)
    \/ \E encoderThrows \in BOOLEAN : StitchProcessGroup(encoderThrows)

\* The size-bounded mergers: POST /api/tts/process and AudioStitcher.
SpecMerge == InitMerge /\ [][NextMerge]_vars

\* Requests whose chunks all encode to 25 MB, with the default limit of
\* 100 MB (maxSizeMB = 100 at route.ts:145) or half of it.
ScenarioArtifacts == 5
ScenarioSize == 25 * 1024 * 1024
ScenarioMaxSizeMBs == {50, 100}

InitScenario ==
    /\ component = "ProcessRoute"
    /\ audioChunks \in {[k \in 1..n |-> ScenarioSize] : n \in 0..ScenarioArtifacts}
    /\ maxSizeMB \in ScenarioMaxSizeMBs
    /\ bodyKind = "ok"
    /\ EmptyTempDir
    /\ req = reqInitial
    /\ other = otherInitial
    /\ RestStitch
    /\ RestOrch

NextRoute ==
    \/ RouteParseBody
    \/ \E outcome \in Outcomes : RouteWriteChunk(outcome)
    \/ \E outcome \in Outcomes : RouteConvert(outcome)
    \/ RouteUnlinkWav
    \/ RouteBatchFile
    \/ \E outcome \in Outcomes : RouteCopyFile(outcome)
    \/ \E outcome \in Outcomes : RouteWriteList(outcome)
    \/ \E outcome \in Outcomes : RouteConcat(outcome)
    \/ \E ok \in BOOLEAN : RouteReadMerged(ok)
    \/ RouteUnlinkBatch
    \/ RouteFinally

SpecScenario == InitScenario /\ [][NextRoute]_vars

\* A sweep over a temp directory holding files of earlier requests, while
\* their owners may remove them; the request that started the sweep is
\* awaiting its body.
InitJanitor ==
    /\ component = "ProcessRoute"
    /\ audioChunks = <<>>
    /\ maxSizeMB = 1
    /\ bodyKind = "ok"
    /\ clock = Epoch
    /\ \E S \in SUBSET ForeignNames :
          /\ Cardinality(S) <= MaxOldFiles
          /\ files = [p \in S |-> <<>>]
          /\ mtime \in [S -> {Epoch - a : a \in FileAges}]
    /\ sweep = sweepInitial
    /\ req = reqInitial
    /\ other = otherInitial
    /\ RestStitch
    /\ RestOrch

NextJanitor ==
    \/ \E outcome \in {"ok", "notdir", "enoent", "error"} : JanitorStatDir(outcome)
    \/ \E ok \in BOOLEAN : JanitorReaddir(ok)
    \/ \E ok \in BOOLEAN : JanitorStat(ok)
    \/ \E ok \in BOOLEAN : JanitorUnlink(ok)
    \/ \E p \in ForeignNames : OtherUnlink(p)

SpecJanitor == InitJanitor /\ [][NextJanitor]_vars

\* A request and the sweep it started, with at most one file of an earlier
\* request in the temp directory.
InitSweepRequest ==
    /\ component = "ProcessRoute"
    /\ audioChunks \in SeqsUpTo({524288}, 2)
    /\ maxSizeMB = 1
    /\ bodyKind \in BodyKinds
    /\ bodyKind # "ok" => audioChunks = <<>>
    /\ clock = Epoch
    /\ \E S \in SUBSET {[kind |-> "merged", ts |-> 0, n |-> 0, ext |-> "mp3"]} :
          /\ files = [p \in S |-> <<>>]
          /\ mtime \in [S -> {Epoch - a : a \in FileAges}]
    /\ sweep = sweepInitial
    /\ req = reqInitial
    /\ other = otherInitial
    /\ RestStitch
    /\ RestOrch

NextSweepRequest ==
    \/ RouteParseBody
    \/ \E outcome \in Outcomes : RouteWriteChunk(outcome)
    \/ \E outcome \in Outcomes : RouteConvert(outcome)
    \/ RouteUnlinkWav
    \/ RouteBatchFile
    \/ \E outcome \in Outcomes : RouteCopyFile(outcome)
    \/ \E outcome \in Outcomes : RouteWriteList(outcome)
    \/ \E outcome \in Outcomes : RouteConcat(outcome)
    \/ \E ok \in BOOLEAN : RouteReadMerged(ok)
    \/ RouteUnlinkBatch
    \/ RouteFinally
    \/ \E outcome \in {"ok", "notdir", "enoent", "error"} : JanitorStatDir(outcome)
    \/ \E ok \in BOOLEAN : JanitorReaddir(ok)
    \/ \E ok \in BOOLEAN : JanitorStat(ok)
    \/ \E ok \in BOOLEAN : JanitorUnlink(ok)

SpecSweepRequest == InitSweepRequest /\ [][NextSweepRequest]_vars

\* One chunk posted to the synthesis endpoint, for every configuration of
\* the engines.
InitSynth ==
    /\ component = "TtsRoute"
    /\ \E len \in ChunkLengths, mode \in ProcessingModes, useHf, hasLocal \in BOOLEAN :
          synth = synthInitial(len, mode, useHf, hasLocal)
    /\ nChunks = 0
    /\ InitOrchState
    /\ RestChunk
    /\ RestProcessor
    /\ RestRoute
    /\ RestStitch

NextSynth ==
    \/ SynthPost
    \/ \E ok \in BOOLEAN : SynthHuggingFace(ok)
    \/ \E ok \in BOOLEAN : SynthLocal(ok)

SpecSynth == InitSynth /\ [][NextSynth]_vars

\* The AudioProcessor's queue while chunks arrive and requests are answered.
InitProcessor ==
    /\ component = "AudioProcessor"
    /\ ap = apInitial
    /\ nChunks = 0
    /\ InitOrchState
    /\ RestChunk
    /\ RestSynth
    /\ RestRoute
    /\ RestStitch

NextProcessor ==
    \/ ApAddAudioChunk
    \/ ApProcessChunks
    \/ \E ok \in BOOLEAN : ApResponse(ok)

SpecProcessor == InitProcessor /\ [][NextProcessor]_vars

\* Two requests in flight in an empty temp directory, entered in the same
\* millisecond or 31 minutes apart; the sweep the first one started is over.
InitTwoRequests ==
    /\ component = "ProcessRoute"
    /\ audioChunks \in {<<524288>>, <<524288, 524288>>}
    /\ maxSizeMB = 1
    /\ bodyKind = "ok"
    /\ files = [p \in {} |-> <<>>]
    /\ mtime = [p \in {} |-> 0]
    /\ clock = Epoch
    /\ sweep = [sweepInitial EXCEPT !.pc = "done", !.now = Epoch]
    /\ req = reqInitial
    /\ other = otherInitial
    /\ RestStitch
    /\ RestOrch

NextTwoRequests ==
    \/ RouteParseBody
    \/ \E outcome \in {"ok", "fail"} : RouteWriteChunk(outcome)
    \/ \E outcome \in {"ok", "fail"} : RouteConvert(outcome)
    \/ RouteUnlinkWav
    \/ RouteBatchFile
    \/ \E outcome \in {"ok", "fail"} : RouteCopyFile(outcome)
    \/ \E outcome \in {"ok", "fail"} : RouteWriteList(outcome)
    \/ \E outcome \in {"ok", "fail"} : RouteConcat(outcome)
    \/ \E ok \in BOOLEAN : RouteReadMerged(ok)
    \/ RouteUnlinkBatch
    \/ RouteFinally
    \/ \E n \in OtherChunks : OtherEnter(n)
    \/ OtherParseBody
    \/ OtherWriteChunk
    \/ OtherConvert
    \/ OtherUnlinkWav
    \/ OtherFinally
    \/ Tick

SpecTwoRequests == InitTwoRequests /\ [][NextTwoRequests]_vars

\* A request that takes long, and the sweep a second request starts on its
\* arrival.
InitLateSweep ==
    /\ component = "ProcessRoute"
    /\ audioChunks \in {<<524288>>, <<524288, 524288>>}
    /\ maxSizeMB = 1
    /\ bodyKind = "ok"
    /\ EmptyTempDir
    /\ req = reqInitial
    /\ other = otherInitial
    /\ RestStitch
    /\ RestOrch

NextLateSweep ==
    \/ RouteParseBody
    \/ \E outcome \in {"ok", "fail"} : RouteWriteChunk(outcome)
    \/ \E outcome \in {"ok", "fail"} : RouteConvert(outcome)
    \/ RouteUnlinkWav
    \/ RouteBatchFile
    \/ \E outcome \in {"ok", "fail"} : RouteCopyFile(outcome)
    \/ \E outcome \in {"ok", "fail"} : RouteWriteList(outcome)
    \/ \E outcome \in {"ok", "fail"} : RouteConcat(outcome)
    \/ \E ok \in BOOLEAN : RouteReadMerged(ok)
    \/ RouteUnlinkBatch
    \/ RouteFinally
    \/ \E outcome \in {"ok", "enoent"} : JanitorStatDir(outcome)
    \/ \E ok \in BOOLEAN : JanitorReaddir(ok)
    \/ \E ok \in BOOLEAN : JanitorStat(ok)
    \/ \E ok \in BOOLEAN : JanitorUnlink(ok)
    \/ \E n \in OtherChunks : OtherEnter(n)
    \/ Tick

SpecLateSweep == InitLateSweep /\ [][NextLateSweep]_vars

-----------------------------------------------------------------------------
(* Claims about the orchestrators, checked under SpecOrch *)

LatestRun(r) == \A q \in Runs : q > r => runs[q].pc = "idle"

\* What a finished run handed over: the list given to onComplete
\* (BatchProcessor), the state currentAudioChunks (TtsInterface).
Result(r) ==
    IF component = "BatchProcessor"
    THEN IF completeLog[r] = <<>> THEN <<>> ELSE Last(completeLog[r])
    ELSE tts.currentAudioChunks

\* C2: within one run, synthesis requests are issued in strictly increasing
\* chunk order, and a request is issued only after every earlier request of
\* the run has completed or failed: at most one is in flight.
C2_Sequential ==
    \A r \in Runs :
        /\ \A k \in 1..(Len(calls[r]) - 1) :
              /\ calls[r][k].chunk < calls[r][k + 1].chunk
              /\ calls[r][k].status # "inflight"
        /\ Cardinality(InFlight(r)) <= 1

C2_Witness ==
    \E r \in Runs :
        /\ Len(calls[r]) = 3
        /\ calls[r][1].status = "failed"
        /\ calls[r][2].status = "ok"
        /\ calls[r][3].status = "inflight"

\* C3: a failed synthesis call never aborts the run: a finished run has
\* issued a request for each of the N chunks, and every chunk whose request
\* succeeded is in the result.
C3_FailureDoesNotAbort ==
    \A r \in Runs :
        (runs[r].pc = "done" /\ (component = "TtsInterface" => LatestRun(r))) =>
            /\ Len(calls[r]) = nChunks
            /\ \A c \in 0..(nChunks - 1) : \E k \in 1..Len(calls[r]) : calls[r][k].chunk = c
            /\ \A k \in 1..Len(calls[r]) :
                  calls[r][k].status = "ok" => calls[r][k].chunk \in Range(Result(r))

C3_Witness ==
    \E r \in Runs :
        /\ component = "BatchProcessor"
        /\ runs[r].pc = "done"
        /\ nChunks = 3
        /\ calls[r][1].status = "failed"
        /\ calls[r][2].status = "ok"
        /\ calls[r][3].status = "failed"
        /\ Result(r) = <<1>>

\* The chunks (0-based) whose failure BatchProcessor still holds: its error
\* state is one warning, naming one chunk.
RetainedErrors == IF bp.error = NoError THEN {} ELSE {bp.error.chunk - 1}

\* C4: at the end of a BatchProcessor run every chunk has exactly one
\* retained outcome: its artifact in the result list, or an error carrying
\* its index; k failed chunks leave k errors.
C4_Claim ==
    component = "BatchProcessor" =>
        \A r \in Runs :
            runs[r].pc = "done" =>
                \A c \in 0..(nChunks - 1) :
                    (c \in Range(Result(r))) # (c \in RetainedErrors)

\* C5: a run in which every chunk failed (no artifact) ends in a failure;
\* onComplete is not called with an empty list.
C5_Claim ==
    \A r \in Runs :
        (runs[r].pc = "done" /\ runs[r].audioFiles = <<>>) =>
            /\ completeLog[r] = <<>>
            /\ component = "TtsInterface" =>
                  tts.alert = "No audio chunks were successfully generated"

\* C6: once Cancel was pressed during a run, that run issues no further
\* synthesis request.
C6_Claim ==
    [][\A r \in Runs : runs[r].cancelled => Len(calls'[r]) = Len(calls[r])]_vars

\* C7: a progress event is emitted after its chunk's synthesis call has
\* finished, and reports (calls finished so far) / N.
C7_Claim ==
    [][\A r \in Runs :
          /\ Len(bpProgress'[r]) > Len(bpProgress[r]) =>
                LET e == Last(bpProgress'[r])
                IN /\ FracEq(e.progress, <<Finished(r)' * 100, nChunks>>)
                   /\ \E k \in 1..Len(calls'[r]) :
                         /\ calls'[r][k].chunk = e.currentChunk - 1
                         /\ calls'[r][k].status # "inflight"
          /\ Len(ttsProgress'[r]) > Len(ttsProgress[r]) =>
                FracEq(Last(ttsProgress'[r]), <<Finished(r)' * 100, nChunks>>)]_vars

\* C8: a BatchProcessor run over N chunks emits one progress event per
\* chunk, N in all, with strictly increasing values, the last one 100%.
C8_ProgressEvents ==
    component = "BatchProcessor" =>
        \A r \in Runs :
            /\ Len(bpProgress[r]) <= nChunks
            /\ \A k \in 1..Len(bpProgress[r]) :
                  /\ bpProgress[r][k].currentChunk = k
                  /\ bpProgress[r][k].totalChunks = nChunks
            /\ \A k \in 1..(Len(bpProgress[r]) - 1) :
                  FracLt(bpProgress[r][k].progress, bpProgress[r][k + 1].progress)
            /\ runs[r].pc = "done" =>
                  /\ Len(bpProgress[r]) = nChunks
                  /\ FracEq(Last(bpProgress[r]).progress, Percent(100))

C8_Witness ==
    \E r \in Runs :
        /\ component = "BatchProcessor"
        /\ runs[r].pc = "done"
        /\ nChunks = 3
        /\ Len(bpProgress[r]) = 3
        /\ calls[r][2].status = "failed"
        /\ calls[r][3].status = "ok"

-----------------------------------------------------------------------------
(* Claims about the mergers, checked under SpecMerge *)

\* C1: when the handler of POST /api/tts/process has returned, on any exit
\* path, no temp file this request created still exists.
C1_Claim ==
    req.pc = "returned" => \A p \in DOMAIN files : p.ts # req.timestamp

RouteSize(c) == audioChunks[c + 1]
StitchSize(c) == estimatedSize(audioBuffers[c + 1])

RECURSIVE StitchSum(_)
StitchSum(g) == IF g = <<>> THEN 0 ELSE StitchSize(Head(g)) + StitchSum(Tail(g))

RouteGroupOf(paths) == [k \in 1..Len(paths) |-> paths[k].n]

\* The groups closed so far, as chunk indices: the ones merged, and the one
\* being merged.
RouteClosedGroups ==
    req.mergedFiles \o
        (IF req.pc \in {"merge", "concat", "read"}
         THEN <<RouteGroupOf(req.currentBatch)>> ELSE <<>>)

StitchClosedGroups ==
    [k \in 1..Len(stitch.stitchedFiles) |-> stitch.stitchedFiles[k].data] \o
        (IF stitch.pc = "process" THEN <<stitch.currentGroup>> ELSE <<>>)

\* C9: every closed group has a cumulative size of at most the bound,
\* except a group of one artifact that alone exceeds it.
C9_GroupsWithinBound ==
    /\ \A k \in 1..Len(RouteClosedGroups) :
          LET g == RouteClosedGroups[k]
          IN \/ SumSizes(g) <= maxSizeBytes
             \/ Len(g) = 1 /\ RouteSize(g[1]) > maxSizeBytes
    /\ \A k \in 1..Len(StitchClosedGroups) :
          LET g == StitchClosedGroups[k]
          IN \/ StitchSum(g) <= maxFileSize
             \/ Len(g) = 1 /\ StitchSize(g[1]) > maxFileSize

C9_Witness ==
    /\ req.pc = "returned"
    /\ req.response.status = 200
    /\ req.response.files = << <<0, 1>>, <<2>> >>
    /\ SumSizes(<<0, 1>>) = maxSizeBytes
    /\ RouteSize(2) > maxSizeBytes

Occurrences(groups, c) ==
    Cardinality({<<k, j>> \in (1..Len(groups)) \X (1..MaxArtifacts + 1) :
                    j <= Len(groups[k]) /\ groups[k][j] = c})

\* C10: an artifact that alone exceeds the bound is alone in its group,
\* wherever it occurs; in the output it is in exactly one group, once.
C10_OversizeAlone ==
    /\ \A g \in Range(RouteClosedGroups) \cup {RouteGroupOf(req.currentBatch)} :
          \A j \in 1..Len(g) : RouteSize(g[j]) > maxSizeBytes => Len(g) = 1
    /\ \A g \in Range(StitchClosedGroups) \cup {stitch.currentGroup} :
          \A j \in 1..Len(g) : StitchSize(g[j]) > maxFileSize => Len(g) = 1
    /\ (req.pc = "returned" /\ req.response.status = 200) =>
          \A c \in 0..(Len(audioChunks) - 1) :
              RouteSize(c) > maxSizeBytes => Occurrences(req.response.files, c) = 1
    /\ (stitch.pc = "done" /\ stitch.error = "") =>
          \A c \in 0..(Len(audioBuffers) - 1) :
              StitchSize(c) > maxFileSize =>
                  Occurrences(StitchClosedGroups, c) = 1

C10_Witness ==
    /\ stitch.pc = "done"
    /\ Len(audioBuffers) = 3
    /\ StitchSize(0) < maxFileSize
    /\ StitchSize(1) > maxFileSize
    /\ StitchSize(2) < maxFileSize
    /\ StitchClosedGroups = << <<0>>, <<1>>, <<2>> >>
    /\ Last(stitch.completed) = stitch.stitchedFiles

RECURSIVE Flatten(_)
Flatten(groups) ==
    IF groups = <<>> THEN <<>> ELSE Head(groups) \o Flatten(Tail(groups))

\* The input sequence as chunk indices, and its prefixes.
InputOrder(n) == [k \in 1..n |-> k - 1]
IsInputPrefix(s, n) == Len(s) <= n /\ s = InputOrder(Len(s))

StitchOutput(out) == [k \in 1..Len(out) |-> out[k].data]

\* C11: the groups, in output order, are a partition of the input into
\* contiguous runs: while merging, the closed groups concatenate to a
\* prefix of the input; at a successful end they concatenate to the whole
\* input, each artifact once and in increasing chunk order, and the files
\* are numbered in group order.
C11_Partition ==
    /\ IsInputPrefix(Flatten(RouteClosedGroups), Len(audioChunks))
    /\ IsInputPrefix(Flatten(StitchClosedGroups), Len(audioBuffers))
    /\ (req.pc = "returned" /\ req.response.status = 200) =>
          Flatten(req.response.files) = InputOrder(Len(audioChunks))
    /\ (stitch.pc = "done" /\ stitch.error = "") =>
          /\ Flatten(StitchOutput(Last(stitch.completed))) = InputOrder(Len(audioBuffers))
          /\ \A k \in 1..Len(stitch.stitchedFiles) : stitch.stitchedFiles[k].index = k

C11_Witness ==
    /\ req.pc = "returned"
    /\ req.response.status = 200
    /\ Len(audioChunks) = 3
    /\ req.response.files = << <<0>>, <<1, 2>> >>

\* C12: no group is empty: every group that is closed holds at least one
\* artifact, and a successful merge returns no file exactly when the
\* artifact list is empty.
C12_NoEmptyGroup ==
    /\ \A k \in 1..Len(RouteClosedGroups) : Len(RouteClosedGroups[k]) >= 1
    /\ \A k \in 1..Len(StitchClosedGroups) : Len(StitchClosedGroups[k]) >= 1
    /\ (req.pc = "returned" /\ req.response.status = 200) =>
          (Len(req.response.files) = 0) = (Len(audioChunks) = 0)
    /\ (stitch.pc = "done" /\ stitch.error = "") =>
          (Len(Last(stitch.completed)) = 0) = (Len(audioBuffers) = 0)

\* The first artifact alone is above the limit: the group before it would
\* be the empty one.
C12_Witness ==
    /\ stitch.pc = "done"
    /\ stitch.error = ""
    /\ Len(audioBuffers) = 2
    /\ StitchSize(0) > maxFileSize
    /\ StitchOutput(Last(stitch.completed)) = << <<0>>, <<1>> >>

-----------------------------------------------------------------------------
(* The 5 x 25 MB scenario, checked under SpecScenario *)

FiveOf25MB ==
    /\ audioChunks = [k \in 1..5 |-> ScenarioSize]
    /\ maxSizeMB = 100
    /\ req.pc = "returned"
    /\ req.response.status = 200

\* C13 as stated: five artifacts of 25 MB each with a bound of 100 MB are
\* merged into exactly two groups, [1,2,3] and [4,5].
C13_Claim ==
    FiveOf25MB => req.response.files = << <<0, 1, 2>>, <<3, 4>> >>

\* C13 amended: five artifacts of 25 MB each with a bound of 100 MB are
\* merged into exactly two groups, [1,2,3,4] and [5]: the fourth artifact
\* brings the group to exactly 100 MB, which does not exceed the bound.
C13_FourThenOne ==
    FiveOf25MB => req.response.files = << <<0, 1, 2, 3>>, <<4>> >>

C13_Witness ==
    /\ FiveOf25MB
    /\ Len(req.response.files) = 2
    /\ SumSizes(req.response.files[1]) = maxSizeBytes

-----------------------------------------------------------------------------
(* Failures inside the mergers, checked under SpecMerge *)

\* C14: with format mp3, a group whose MP3 encoding throws is still output,
\* as a WAV file of the same audio; the other groups are mp3; there is one
\* output file per group processed, and a run whose files all loaded does
\* not end in the error state.
C14_WavFallback ==
    outputFormat = "mp3" =>
        /\ Len(stitch.stitchedFiles) = Len(stitch.encoderThrew)
        /\ \A k \in 1..Len(stitch.stitchedFiles) :
              stitch.stitchedFiles[k].extension =
                  IF stitch.encoderThrew[k] THEN "wav" ELSE "mp3"
        /\ (stitch.pc = "done" /\ Len(stitch.loaded) = Len(audioBuffers)) =>
              /\ stitch.error = ""
              /\ Flatten(StitchOutput(stitch.stitchedFiles)) = InputOrder(Len(audioBuffers))

C14_Witness ==
    /\ outputFormat = "mp3"
    /\ stitch.pc = "done"
    /\ stitch.error = ""
    /\ stitch.encoderThrew = <<FALSE, TRUE, FALSE>>
    /\ Len(stitch.stitchedFiles) = 3
    /\ stitch.stitchedFiles[1].extension = "mp3"
    /\ stitch.stitchedFiles[2].extension = "wav"
    /\ stitch.stitchedFiles[3].extension = "mp3"

\* C15: a filesystem or ffmpeg failure on one batch costs that batch only:
\* whatever the handler returns, the files of the batches that were merged
\* and read successfully are in the response.
C15_Claim ==
    req.pc = "returned" => req.response.files = req.mergedFiles

-----------------------------------------------------------------------------
(* Claims about the sweep, checked under SpecJanitor *)

\* A file's age by last-modified time when the sweep took the time.
AgeAtSweep(p) == sweep.now - mtime[p]

Position(l, p) == CHOOSE k \in 1..Len(l) : l[k] = p

\* C16: a finished sweep has deleted a file it listed if and only if the
\* file's age by mtime at sweep time exceeded maxAgeMinutes (and its stat
\* and unlink did not fail), whatever the file's name; it deleted nothing
\* else.  With the limit at 30 minutes a file aged 10 minutes stays and
\* one aged 45 minutes goes.
C16_DeletesIffOld ==
    /\ sweep.deleted \subseteq Range(sweep.listing)
    /\ sweep.deleted \cap DOMAIN files = {}
    /\ sweep.pc = "done" =>
          \A p \in Range(sweep.listing) :
              (p \in sweep.deleted) <=>
                  /\ AgeAtSweep(p) > sweep.maxAgeMinutes * Minute
                  /\ p \notin sweep.failed

C16_Witness ==
    /\ sweep.pc = "done"
    /\ sweep.failed = {}
    /\ \E p, q \in Range(sweep.listing) :
          /\ AgeAtSweep(p) = 10 * Minute
          /\ Exists(files, p)
          /\ AgeAtSweep(q) = 45 * Minute
          /\ q \in sweep.deleted
          /\ q.kind = "upload"

\* C17: a sweep does not abort partway: once it has listed the directory
\* it visits every file listed, and every listed file older than the limit
\* whose own stat and unlink did not fail is gone when it ends.
C17_SweepGoesOn ==
    (sweep.pc = "done" /\ sweep.listing # <<>>) =>
        /\ sweep.i = Len(sweep.listing) - 1
        /\ \A p \in Range(sweep.listing) :
              (AgeAtSweep(p) > sweep.maxAgeMinutes * Minute /\ p \notin sweep.failed) =>
                  ~Exists(files, p)

\* A file failed (it was removed under the sweep) and an old file listed
\* after it was deleted by the sweep.
C17_Witness ==
    /\ sweep.pc = "done"
    /\ \E p \in sweep.failed, q \in sweep.deleted :
          /\ ~Exists(files, p)
          /\ Position(sweep.listing, p) < Position(sweep.listing, q)

-----------------------------------------------------------------------------
(* The sweep and the request that started it, checked under SpecSweepRequest *)

\* C18: the sweep a request started never shows in that request's
\* response: no step of the sweep changes the handler's state or response,
\* the sweep deletes no file of the request, and the handler's first step
\* does not wait for the sweep, wherever the sweep stands.
C18_SweepNeverSurfaces ==
    [][/\ sweep' # sweep => req' = req
       /\ \A p \in sweep'.deleted : p.ts # req.timestamp
       /\ req.pc = "parse" => ENABLED RouteParseBody]_vars

\* The sweep ended in its outer catch and the request was answered 200.
C18_Witness ==
    /\ sweep.pc = "done"
    /\ sweep.caught
    /\ req.pc = "returned"
    /\ req.response.status = 200
    /\ Len(req.response.files) = 1

-----------------------------------------------------------------------------
(* Claims about chunkText, checked under SpecChunk *)

\* C19: every chunk chunkText returns is at most maxChunkSize characters
\* long, the punctuation and line breaks it adds included.
C19_Claim ==
    chunker.pc # "idle" =>
        \A k \in 1..Len(chunker.chunks) : Len(chunker.chunks[k]) <= maxChunkSize

StripWhitespace(s) == SelectSeq(s, LAMBDA c : c \notin Whitespace)

\* s is t with characters left out.
RECURSIVE IsSubsequence(_, _)
IsSubsequence(s, t) ==
    IF s = <<>> THEN TRUE
    ELSE IF t = <<>> THEN FALSE
    ELSE IF Head(s) = Head(t) THEN IsSubsequence(Tail(s), Tail(t))
    ELSE IsSubsequence(s, Tail(t))

\* C20: chunking loses no content: whitespace apart, the characters of
\* the text, its sentence terminators among them, are all in the
\* concatenation of the chunks, in order, whatever joining punctuation
\* the chunker adds between them.
C20_Claim ==
    chunker.pc # "idle" =>
        IsSubsequence(StripWhitespace(text), StripWhitespace(Flatten(chunker.chunks)))

\* C21: chunkText is idempotent on its own output: chunking the
\* concatenation of the chunks with the same bound gives the same chunks.
C21_Claim ==
    chunker.pc = "again" => chunker.again = chunker.chunks

\* The text has a character that is neither whitespace nor a terminator.
HasWords(t) == \E k \in 1..Len(t) : t[k] \notin Whitespace \cup Terminators

\* C22: a text that is shorter than maxChunkSize (and has words in it)
\* is returned as exactly one chunk.
C22_Claim ==
    (chunker.pc # "idle" /\ HasWords(text) /\ Len(text) < maxChunkSize) =>
        Len(chunker.chunks) = 1

NonBlankParagraphs(t) == SelectSeq(SplitParagraphs(t, <<>>), LAMBDA x : Trim(x) # <<>>)

\* C23: a text without sentence punctuation is returned as exactly one
\* chunk per non-blank paragraph.
C23_Claim ==
    (chunker.pc # "idle" /\ \A k \in 1..Len(text) : text[k] \notin Terminators) =>
        Len(chunker.chunks) = Len(NonBlankParagraphs(text))

-----------------------------------------------------------------------------
(* Claims about the synthesis endpoint, checked under SpecSynth *)

\* C24: the text given to the synthesis engine for a chunk is the chunk's
\* full text, whatever its length, on the Hugging Face path and on the
\* local-model path alike: when the endpoint answers with audio, the engine
\* that made it was given every character of the body's text.
C24_Claim == synth.status = 200 => synth.engineText = synth.text

-----------------------------------------------------------------------------
(* Claims about AudioProcessor, checked under SpecProcessor *)

\* C29: no queued chunk is lost: every chunk added through addAudioChunk is
\* in the audioChunks of a request that was sent or still in pendingChunks,
\* also when it was added while a request was in flight.
C29_Claim ==
    \A c \in 1..ap.added :
        \/ c \in Range(ap.pendingChunks)
        \/ \E k \in 1..Len(ap.sent) : c \in Range(ap.sent[k])

-----------------------------------------------------------------------------
(* Claims about the mergers, checked under SpecMerge *)

\* Every group but the first was opened because its first artifact did not
\* fit the group before it.
ClosedOnlyWhenFull(groups, sum(_), size(_), maxBytes) ==
    \A k \in 1..(Len(groups) - 1) :
        sum(groups[k]) + size(groups[k + 1][1]) > maxBytes

\* C25: a group is closed only when it must be: for every two consecutive
\* groups of the output, the cumulative size of the first plus the size of
\* the first artifact of the second is strictly greater than the bound; an
\* artifact that still fits (sum equal to or below the bound) stays in the
\* group.
C25_ClosedOnlyWhenFull ==
    /\ ClosedOnlyWhenFull(RouteClosedGroups, SumSizes, RouteSize, maxSizeBytes)
    /\ ClosedOnlyWhenFull(StitchClosedGroups, StitchSum, StitchSize, maxFileSize)

\* Three artifacts of half the bound: the second fills the group exactly and
\* stays in it, the third opens the next group.
C25_Witness ==
    /\ req.pc = "returned"
    /\ req.response.status = 200
    /\ req.response.files = << <<0, 1>>, <<2>> >>
    /\ SumSizes(<<0, 1>>) = maxSizeBytes
    /\ RouteSize(2) < maxSizeBytes

-----------------------------------------------------------------------------
(* Claims about concurrent requests, checked under SpecTwoRequests and *)
(* SpecLateSweep                                                      *)

\* The temp paths a request has used so far.
ReqPaths ==
    Range(req.tempFiles) \cup Range(req.convertedFiles) \cup
        (IF req.pc \in {"concat", "read", "unlink_batch"}
         THEN {outputPath(req.timestamp, req.batchIndex),
               listPath(outputPath(req.timestamp, req.batchIndex))}
         ELSE {})

OtherPaths == Range(other.tempFiles) \cup Range(other.convertedFiles)

\* C26: two requests that execute concurrently never write, read or delete
\* the same temp file path: while both are in flight the sets of paths they
\* use are disjoint, also when both start within the same millisecond.
C26_Claim ==
    (req.pc \notin {"parse", "returned"} /\ other.pc \notin {"absent", "parse", "returned"})
        => ReqPaths \cap OtherPaths = {}

\* A file the first request created and has not finished using: a chunk
\* file waiting for its conversion or for its batch merge.
StillNeeded(p) ==
    \/ /\ req.pc = "write"
       /\ p \in Range(req.tempFiles)
    \/ /\ req.pc = "convert"
       /\ \E k \in (req.i + 1)..Len(req.tempFiles) : req.tempFiles[k] = p
    \/ /\ req.pc \in {"convert", "unlink_wav", "stat", "merge", "concat"}
       /\ p \in Range(req.convertedFiles)

\* C28: a sweep started by one request never deletes a temp file that
\* another request, still in flight, created and has not finished using,
\* whatever the interleaving and however long that request takes: no step
\* of the sweep the second request started removes a file the first one
\* still needs.
C28_Claim ==
    [][other.pc # "absent" =>
          \A p \in sweep'.deleted \ sweep.deleted : ~StillNeeded(p)]_vars

-----------------------------------------------------------------------------
(* Claims about BatchProcessor runs, checked under SpecBatchLive and SpecOrch *)

\* The requests of a run so far are for the chunks 0, 1, 2, ... in order,
\* each once.
InChunkOrder(r) == \A k \in 1..Len(calls[r]) : calls[r][k].chunk = k - 1

\* C27: when every synthesis request eventually returns or fails, a run of
\* startProcessing over N chunks terminates: it issues exactly one request
\* per chunk (no retry, no skip), then calls onComplete exactly once, and
\* the step that ends it leaves isProcessing false.
C27_RunTerminates ==
    /\ \A r \in Runs :
          Active(r) ~> (/\ runs[r].pc = "done"
                        /\ Len(calls[r]) = nChunks
                        /\ InChunkOrder(r)
                        /\ Len(completeLog[r]) = 1)
    /\ [](\A r \in Runs : InChunkOrder(r) /\ Len(completeLog[r]) <= 1)
    /\ [][\A r \in Runs : (Active(r) /\ runs'[r].pc = "done") => ~bp'.isProcessing]_vars

\* A run over three chunks is over: three requests, the second one failed,
\* one call of onComplete.
C27_Witness ==
    /\ component = "BatchProcessor"
    /\ nChunks = 3
    /\ runs[1].pc = "done"
    /\ [k \in 1..Len(calls[1]) |-> calls[1][k].status] = <<"ok", "failed", "ok">>
    /\ Len(completeLog[1]) = 1
    /\ ~bp.isProcessing

\* C30: at most one run of startProcessing is active at any time: Cancel
\* during a run and then Start cannot produce two runs whose synthesis
\* requests are in flight together.
C30_Claim ==
    component = "BatchProcessor" =>
        \A r, q \in Runs : (InFlight(r) # {} /\ InFlight(q) # {}) => r = q

=============================================================================
